---- MODULE Spec2Model ----
(***************************************************************************)
(* Model of page_sites_demographics (src/page_sites_demographics.py): the  *)
(* Streamlit page that filters the clinical table and renders the          *)
(* race/ethnicity breakdown, the age histogram, the site ranking, the      *)
(* stage breakdown and the summary metrics.                                *)
(*                                                                         *)
(* A DataFrame is a sequence of rows; every row keeps the index label it   *)
(* had in the loaded table, as pandas rows do.  A missing categorical      *)
(* value (NaN) is the string "NaN"; the age column holds a set, empty for  *)
(* a missing age and {a} for the age a, so that every comparison with a    *)
(* missing age is false, as a comparison with NaN is.                      *)
(*                                                                         *)
(* Streamlit reruns the whole script on every widget interaction, so each  *)
(* action of the model is one interaction followed by one full run.  The   *)
(* model covers the runs in which the table loads (lines 22-26 succeed).   *)
(***************************************************************************)
EXTENDS Integers, Sequences, FiniteSets, TLC

VARIABLES
    brca_df,              \* the table load_and_preprocess_brca returns
    sort_stable,          \* whether this build's default sort kind keeps ties in input order
    selected_races,       \* value of the Race multiselect
    selected_ethnicities, \* value of the Ethnicity multiselect
    selected_genders,     \* value of the Gender multiselect
    age_group,            \* value of the Age Group selectbox
    selected_site,        \* value the site selectbox returned in this run
    site_options,         \* options the site selectbox was created with (<<>>: not created)
    stale_site,           \* the site the session held at the start of this run is not in filtered_df
    filtered_df,          \* filtered_df of this run
    demo_counts,          \* race/ethnicity table handed to the chart
    age_hist,             \* ages handed to the histogram
    site_counts,          \* site table handed to the chart
    site_filtered,        \* rows the stage breakdown counts
    stage_counts,         \* stage table handed to the chart
    metrics,              \* <<>> or <<summary record>>
    shown                 \* elements rendered by this run

vars == <<brca_df, sort_stable, selected_races, selected_ethnicities, selected_genders,
          age_group, selected_site, site_options, stale_site, filtered_df,
          demo_counts, age_hist, site_counts, site_filtered, stage_counts, metrics,
          shown>>

----------------------------------------------------------------------------
(* Bounds of the model and constants of the program *)

\* longest table of the small families
MaxRows == 3

\* the wide tables hold TopN .. TopN + WideExtra distinct sites or keys
WideExtra == 1

\* head(10) of the race/ethnicity table and of the site table
TopN == 10

\* how many leading race options are selected by default
DefaultRaces == 3

\* how many leading ethnicity options are selected by default
DefaultEthnicities == 2

YoungMax == 45

AdultMax == 65

----------------------------------------------------------------------------
(* Values *)

NaN == "NaN"

Unknown == "Unknown"

All == "All"

AgeGroups == <<"All Ages", "Young (0-45)", "Adult (45-65)", "Senior (65+)">>

\* every categorical value of the model, in the order Python's sorted() gives
StrOrder ==
    <<"Asian", "Black", "Breast", "Hispanic", "I", "II", "Lung",
      "NonHispanic", "S01", "S02", "S03", "S04", "S05", "S06", "S07",
      "S08", "S09", "S10", "S11", "S12", "S13", "Unknown", "White", "female", "male">>

Min(a, b) == IF a <= b THEN a ELSE b

Range(s) == {s[i] : i \in 1..Len(s)}

----------------------------------------------------------------------------
(* pandas and Python helpers *)

\* sorted(xs) of a collection of distinct strings
Sorted(S) == SelectSeq(StrOrder, LAMBDA x : x \in S)

\* s[:n] and df.head(n)
HeadN(s, n) == SubSeq(s, 1, Min(n, Len(s)))

\* df[df[col].isin(values)]
IsIn(df, col, values) == SelectSeq(df, LAMBDA r : r[col] \in values)

\* df[col].unique(), as a set
Unique(df, col) == {df[i][col] : i \in 1..Len(df)}

\* the options of a sidebar multiselect: sorted non-missing, non-"Unknown" values
Options(df, col) == Sorted({x \in Unique(df, col) : x # NaN /\ x # Unknown})

Reverse(s) == [i \in 1..Len(s) |-> s[Len(s) + 1 - i]]

\* the rows of t with the counts c, c - 1, ..., 1 in this order, rows of one
\* count in their order in t
RECURSIVE ByCountFrom(_, _)
ByCountFrom(t, c) ==
    IF c = 0 THEN <<>>
    ELSE SelectSeq(t, LAMBDA r : r.Count = c) \o ByCountFrom(t, c - 1)

MaxCount(t) ==
    IF t = <<>> THEN 0
    ELSE CHOOSE c \in {t[i].Count : i \in 1..Len(t)} :
            \A i \in 1..Len(t) : t[i].Count <= c

\* t.sort_values("Count", ascending=False) with the default sort kind: the
\* rows in non-increasing Count.  The default kind is numpy's quicksort, which
\* promises no order among equal counts; a build keeps them either in input
\* order (stable) or, modelled here as the other outcome, in reverse.
SortValuesDesc(t, stable) ==
    IF stable THEN ByCountFrom(t, MaxCount(t))
    ELSE ByCountFrom(Reverse(t), MaxCount(t))

\* df[col].value_counts(): one row per distinct non-missing value, in order of
\* first appearance, then sorted by count descending
ValueCounts(df, col, stable) ==
    LET n == Len(df)
        first == SelectSeq([i \in 1..n |-> i],
                     LAMBDA i : /\ df[i][col] # NaN
                                /\ \A j \in 1..(i - 1) : df[j][col] # df[i][col])
        counted == [k \in 1..Len(first) |->
                      [value |-> df[first[k]][col],
                       Count |-> Cardinality({i \in 1..n : df[i][col] = df[first[k]][col]})]]
    IN  SortValuesDesc(counted, stable)

\* df.groupby(["race", "ethnicity"]).size().reset_index(name="Count"): one row
\* per key with both parts present, keys in ascending (race, ethnicity) order
GroupBySize(df) ==
    LET n == Len(df)
        rs == Sorted(Unique(df, "race") \ {NaN})
        es == Sorted(Unique(df, "ethnicity") \ {NaN})
        E == Len(es)
        pairs == [p \in 1..(Len(rs) * E) |-> <<rs[((p - 1) \div E) + 1], es[((p - 1) % E) + 1]>>]
        Size(k) == Cardinality({i \in 1..n : df[i].race = k[1] /\ df[i].ethnicity = k[2]})
        sized == [p \in 1..Len(pairs) |->
                    [race |-> pairs[p][1], ethnicity |-> pairs[p][2], Count |-> Size(pairs[p])]]
    IN  SelectSeq(sized, LAMBDA r : r.Count > 0)

----------------------------------------------------------------------------
(* The script.  Every block takes the record L of the locals assigned so   *)
(* far (and shown, the elements rendered so far) and returns it extended.  *)

\* RaceFilter without the test for an empty selection
RaceFilter_always(df, races) == IsIn(df, "race", races)

\* lines 64-65
RaceFilter(df, races) ==
    IF races # {} THEN IsIn(df, "race", races) ELSE df

\* lines 67-68
EthnicityFilter(df, ethnicities) ==
    IF ethnicities # {} THEN IsIn(df, "ethnicity", ethnicities) ELSE df

\* lines 70-71
GenderFilter(df, genders) ==
    IF genders # {} THEN IsIn(df, "gender", genders) ELSE df

\* AgeFilter with the lower bound of Adult inclusive
AgeFilter_inclusive(df, ag) ==
    IF ag = "Young (0-45)"
    THEN SelectSeq(df, LAMBDA r : \E a \in r.age : a <= YoungMax)
    ELSE IF ag = "Adult (45-65)"
    THEN SelectSeq(df, LAMBDA r : \E a \in r.age : a >= YoungMax /\ a <= AdultMax)
    ELSE IF ag = "Senior (65+)"
    THEN SelectSeq(df, LAMBDA r : \E a \in r.age : a > AdultMax)
    ELSE df

\* lines 73-78
AgeFilter(df, ag) ==
    IF ag = "Young (0-45)"
    THEN SelectSeq(df, LAMBDA r : \E a \in r.age : a <= YoungMax)
    ELSE IF ag = "Adult (45-65)"
    THEN SelectSeq(df, LAMBDA r : \E a \in r.age : a > YoungMax /\ a <= AdultMax)
    ELSE IF ag = "Senior (65+)"
    THEN SelectSeq(df, LAMBDA r : \E a \in r.age : a > AdultMax)
    ELSE df

\* lines 62-78
ApplyFilters(df, races, ethnicities, genders, ag) ==
    AgeFilter(GenderFilter(EthnicityFilter(RaceFilter(df, races), ethnicities),
                           genders), ag)

FilterBlock(L) ==
    [filtered_df |-> ApplyFilters(L.brca_df, L.selected_races, L.selected_ethnicities,
                                  L.selected_genders, L.age_group)] @@ L

\* EarlyReturn that never returns
EarlyReturn_never(L) == FALSE

\* EarlyReturn that also gives up when no age is present
EarlyReturn_noAges(L) ==
    \/ L.filtered_df = <<>>
    \/ \A i \in 1..Len(L.filtered_df) : L.filtered_df[i].age = {}

\* filtered_df.empty, line 80
EarlyReturn(L) == L.filtered_df = <<>>

\* lines 81-82: the warning, and nothing else is assigned or rendered
WarnBlock(L) ==
    [shown |-> L.shown \cup {"warning"}, demo_counts |-> <<>>, age_hist |-> <<>>,
     site_counts |-> <<>>, site_options |-> <<>>, selected_site |-> All,
     stale_site |-> FALSE, site_filtered |-> <<>>, stage_counts |-> <<>>,
     metrics |-> <<>>] @@ L

\* line 84
PatientsBlock(L) == [shown |-> L.shown \cup {"patients_metric"}] @@ L

\* DemoBlock with the sort left ascending
DemoBlock_ascending(L) ==
    [demo_counts |->
        HeadN(Reverse(SortValuesDesc(GroupBySize(L.filtered_df), L.sort_stable)), TopN),
     shown |-> L.shown \cup {"demo_chart"}] @@ L

\* lines 94-104
DemoBlock(L) ==
    [demo_counts |-> HeadN(SortValuesDesc(GroupBySize(L.filtered_df), L.sort_stable), TopN),
     shown |-> L.shown \cup {"demo_chart"}] @@ L

\* filtered_df[["age"]].dropna(), as the sequence of ages
DropNaAges(df) ==
    [i \in 1..Len(SelectSeq(df, LAMBDA r : r.age # {})) |->
        CHOOSE a \in SelectSeq(df, LAMBDA r : r.age # {})[i].age : TRUE]

AgeView(ah) == IF ah # <<>> THEN {"age_chart"} ELSE {}

\* lines 108-117
AgeBlock(L) ==
    [age_hist |-> DropNaAges(L.filtered_df),
     shown |-> L.shown \cup AgeView(DropNaAges(L.filtered_df))] @@ L

\* SiteCounts with head(10) taken before "Unknown" is removed
SiteCounts_headFirst(df, stable) ==
    SelectSeq(HeadN(ValueCounts(df, "site", stable), TopN), LAMBDA r : r.value # Unknown)

\* lines 130-132
SiteCounts(df, stable) ==
    HeadN(SelectSeq(ValueCounts(df, "site", stable), LAMBDA r : r.value # Unknown), TopN)

\* ["All"] + list(site_counts["Site"].unique()), line 145
SiteOptions(sc) == <<All>> \o [i \in 1..Len(sc) |-> sc[i].value]

\* lines 130-140
SiteBlock(L) ==
    [site_counts |-> SiteCounts(L.filtered_df, L.sort_stable),
     shown |-> L.shown \cup {"site_chart"}] @@ L

\* st.selectbox: a widget created with the options of the previous run keeps
\* the value the session holds; one created with other options is a new
\* widget and returns its first option
SelectBox(options, session) ==
    IF session.options = options /\ session.value \in Range(options)
    THEN session.value
    ELSE options[1]

\* SelectBlock with the options taken from the whole table, as the sidebar
\* filters take theirs
SelectBlock_fromTable(L) ==
    [site_options |-> <<All>> \o Sorted(Unique(L.brca_df, "site") \ {Unknown}),
     selected_site |-> SelectBox(<<All>> \o Sorted(Unique(L.brca_df, "site") \ {Unknown}),
                                 L.session),
     stale_site |-> /\ L.session.value # All
                    /\ L.session.value \notin Unique(L.filtered_df, "site")] @@ L

\* lines 143-146
SelectBlock(L) ==
    [site_options |-> SiteOptions(L.site_counts),
     selected_site |-> SelectBox(SiteOptions(L.site_counts), L.session),
     stale_site |-> /\ L.session.value # All
                    /\ L.session.value \notin Unique(L.filtered_df, "site")] @@ L

\* lines 151-154
SiteRestrict(df, site) ==
    IF site # All THEN SelectSeq(df, LAMBDA r : r.site = site) ELSE df

\* StageCounts that keeps the stage "Unknown"
StageCounts_keepUnknown(sf, stable) ==
    IF sf # <<>> THEN ValueCounts(sf, "stage", stable) ELSE <<>>

\* lines 157-159
StageCounts(sf, stable) ==
    IF sf # <<>>
    THEN SelectSeq(ValueCounts(sf, "stage", stable), LAMBDA r : r.value # Unknown)
    ELSE <<>>

\* lines 156, 161-172
StageView(sf, sc) ==
    IF sf # <<>>
    THEN IF sc # <<>> THEN {"stage_chart"} ELSE {"stage_info_no_stage"}
    ELSE {"stage_info_no_site"}

StageRender(L) == [shown |-> L.shown \cup StageView(L.site_filtered, L.stage_counts)] @@ L

StageCount(L) == [stage_counts |-> StageCounts(L.site_filtered, L.sort_stable)] @@ L

StageInput(L) == [site_filtered |-> SiteRestrict(L.filtered_df, L.selected_site)] @@ L

\* lines 151-172
StageBlock(L) == StageRender(StageCount(StageInput(L)))

RECURSIVE SumSeq(_)
SumSeq(s) == IF s = <<>> THEN 0 ELSE Head(s) + SumSeq(Tail(s))

\* SummaryBlock computed from the rows of the selected site
SummaryBlock_siteRows(L) ==
    [metrics |->
        <<[total |-> Len(L.site_filtered),
           unique_sites |-> Cardinality(Unique(L.site_filtered, "site") \ {NaN}),
           unique_stages |->
               Cardinality(Unique(SelectSeq(L.site_filtered, LAMBDA r : r.stage # Unknown),
                                  "stage") \ {NaN}),
           avg_age |-> [sum |-> SumSeq(DropNaAges(L.site_filtered)),
                        n |-> Len(DropNaAges(L.site_filtered))]]>>,
     shown |-> L.shown \cup {"summary"}] @@ L

\* lines 181-194: the four metrics.  The mean is kept as the pair (sum, n) of
\* the present ages, n = 0 being the NaN that mean() gives.
SummaryBlock(L) ==
    [metrics |->
        <<[total |-> Len(L.filtered_df),
           unique_sites |-> Cardinality(Unique(L.filtered_df, "site") \ {NaN}),
           unique_stages |->
               Cardinality(Unique(SelectSeq(L.filtered_df, LAMBDA r : r.stage # Unknown),
                                  "stage") \ {NaN}),
           avg_age |-> [sum |-> SumSeq(DropNaAges(L.filtered_df)),
                        n |-> Len(DropNaAges(L.filtered_df))]]>>,
     shown |-> L.shown \cup {"summary"}] @@ L

\* lines 84-194
Body(L) ==
    SummaryBlock(StageBlock(SelectBlock(SiteBlock(AgeBlock(DemoBlock(PatientsBlock(L)))))))

AfterFilter(L) == IF EarlyReturn(L) THEN WarnBlock(L) ELSE Body(L)

\* one run of the script after the sidebar widgets (lines 62-194).  L holds
\* the table, the widget values, the build's sort behaviour and session, what
\* the session holds for the site selectbox when the run starts.
Run(L) == AfterFilter(FilterBlock([shown |-> {}] @@ L))

----------------------------------------------------------------------------
(* Tables the loader may return *)

Row(race, ethnicity, gender, age, site, stage) ==
    [race |-> race, ethnicity |-> ethnicity, gender |-> gender, age |-> age,
     site |-> site, stage |-> stage]

\* the table with the rows of d under pandas' default index 0, 1, ...
Indexed(d) ==
    [i \in 1..Len(d) |->
        [index |-> i - 1, race |-> d[i].race, ethnicity |-> d[i].ethnicity,
         gender |-> d[i].gender, age |-> d[i].age, site |-> d[i].site,
         stage |-> d[i].stage]]

SeqsUpTo(R, n) == UNION {[1..k -> R] : k \in 0..n}

\* rows that differ in race and ethnicity
DemoRows ==
    {Row(k[1], k[2], "female", {50}, "Breast", "I") :
        k \in {<<"White", "NonHispanic">>, <<"White", "Hispanic">>,
               <<Unknown, "Hispanic">>, <<"Black", NaN>>}}

\* rows that differ in gender and age
AgeRows ==
    {Row("White", "Hispanic", k[1], k[2], "Breast", "I") :
        k \in {<<"female", {}>>, <<"female", {45}>>, <<"male", {46}>>,
               <<"male", {65}>>}}

\* rows that differ in site and stage
SiteRows ==
    {Row("White", "Hispanic", "female", k[3], k[1], k[2]) :
        k \in {<<"Breast", "I", {65}>>, <<"Breast", Unknown, {}>>,
               <<"Lung", "II", {}>>, <<Unknown, "I", {66}>>}}

SiteNames ==
    <<"S01", "S02", "S03", "S04", "S05", "S06", "S07", "S08", "S09", "S10",
      "S11", "S12", "S13">>

StageCycle == <<"I", "II", Unknown>>

\* u rows of site "Unknown", then one row for each of the first n sites, then
\* a second row for site d (none when d = 0)
WideSiteTable(n, d, u) ==
    [i \in 1..u |-> Row("White", "Hispanic", "female", {50}, Unknown, "I")]
    \o [i \in 1..n |-> Row("White", "Hispanic", "female", {50}, SiteNames[i],
                           StageCycle[(i % 3) + 1])]
    \o (IF d = 0 THEN <<>>
        ELSE <<Row("White", "Hispanic", "female", {50}, SiteNames[d], "II")>>)

\* (race, ethnicity) keys, not in ascending order
KeyNames ==
    <<<<"White", "Unknown">>, <<"White", "Hispanic">>, <<"Unknown", "NonHispanic">>,
      <<"Black", "Unknown">>, <<"Asian", "Unknown">>, <<"White", "NonHispanic">>,
      <<"Unknown", "Hispanic">>, <<"Black", "Hispanic">>, <<"Asian", "NonHispanic">>,
      <<"Unknown", "Unknown">>, <<"Black", "NonHispanic">>, <<"Asian", "Hispanic">>>>

\* one row for each of the first n keys, then a second row for key d
WideKeyTable(n, d) ==
    [i \in 1..n |-> Row(KeyNames[i][1], KeyNames[i][2], "female", {50}, "Breast", "I")]
    \o (IF d = 0 THEN <<>>
        ELSE <<Row(KeyNames[d][1], KeyNames[d][2], "female", {50}, "Breast", "I")>>)

Tables ==
    {Indexed(d) : d \in SeqsUpTo(DemoRows, MaxRows) \cup SeqsUpTo(AgeRows, MaxRows)
                        \cup SeqsUpTo(SiteRows, MaxRows)}
    \cup {Indexed(WideSiteTable(n, d, u)) :
            n \in TopN..(TopN + WideExtra), d \in {0, 1, TopN}, u \in {0, 3}}
    \cup {Indexed(WideKeyTable(n, d)) :
            n \in TopN..(TopN + WideExtra), d \in {0, TopN}}

----------------------------------------------------------------------------
(* The page *)

\* defaults of the sidebar multiselects, lines 36, 44, 58
DefaultRaceSelection(df) == Range(HeadN(Options(df, "race"), DefaultRaces))

DefaultEthnicitySelection(df) == Range(HeadN(Options(df, "ethnicity"), DefaultEthnicities))

DefaultGenderSelection(df) == Range(Options(df, "gender"))

\* the values of the run out are the state after it
Shows(out) ==
    /\ selected_site = out.selected_site
    /\ site_options = out.site_options
    /\ stale_site = out.stale_site
    /\ filtered_df = out.filtered_df
    /\ demo_counts = out.demo_counts
    /\ age_hist = out.age_hist
    /\ site_counts = out.site_counts
    /\ site_filtered = out.site_filtered
    /\ stage_counts = out.stage_counts
    /\ metrics = out.metrics
    /\ shown = out.shown

\* the first run of a session: every widget returns its default
Init ==
    /\ brca_df \in Tables
    /\ sort_stable \in BOOLEAN
    /\ selected_races = DefaultRaceSelection(brca_df)
    /\ selected_ethnicities = DefaultEthnicitySelection(brca_df)
    /\ selected_genders = DefaultGenderSelection(brca_df)
    /\ age_group = AgeGroups[1]
    /\ Shows(Run([brca_df |-> brca_df, sort_stable |-> sort_stable,
                  selected_races |-> selected_races,
                  selected_ethnicities |-> selected_ethnicities,
                  selected_genders |-> selected_genders, age_group |-> age_group,
                  session |-> [options |-> <<>>, value |-> All]]))

Commit(out) ==
    /\ selected_races' = out.selected_races
    /\ selected_ethnicities' = out.selected_ethnicities
    /\ selected_genders' = out.selected_genders
    /\ age_group' = out.age_group
    /\ selected_site' = out.selected_site
    /\ site_options' = out.site_options
    /\ stale_site' = out.stale_site
    /\ filtered_df' = out.filtered_df
    /\ demo_counts' = out.demo_counts
    /\ age_hist' = out.age_hist
    /\ site_counts' = out.site_counts
    /\ site_filtered' = out.site_filtered
    /\ stage_counts' = out.stage_counts
    /\ metrics' = out.metrics
    /\ shown' = out.shown
    /\ UNCHANGED <<brca_df, sort_stable>>

\* a rerun of the script with the widget values given
Rerun(races, ethnicities, genders, ag, session) ==
    Commit(Run([brca_df |-> brca_df, sort_stable |-> sort_stable,
                selected_races |-> races, selected_ethnicities |-> ethnicities,
                selected_genders |-> genders, age_group |-> ag,
                session |-> session]))

\* what the session holds for the site selectbox between two runs
Session == [options |-> site_options, value |-> selected_site]

Toggle(S, x) == IF x \in S THEN S \ {x} ELSE S \cup {x}

\* the user adds or removes one value in the Race multiselect
ToggleRace(r) ==
    /\ r \in Range(Options(brca_df, "race"))
    /\ Rerun(Toggle(selected_races, r), selected_ethnicities, selected_genders,
             age_group, Session)

ToggleEthnicity(e) ==
    /\ e \in Range(Options(brca_df, "ethnicity"))
    /\ Rerun(selected_races, Toggle(selected_ethnicities, e), selected_genders,
             age_group, Session)

ToggleGender(g) ==
    /\ g \in Range(Options(brca_df, "gender"))
    /\ Rerun(selected_races, selected_ethnicities, Toggle(selected_genders, g),
             age_group, Session)

\* the user picks another age group
ChooseAgeGroup(ag) ==
    /\ ag \in Range(AgeGroups)
    /\ ag # age_group
    /\ Rerun(selected_races, selected_ethnicities, selected_genders, ag, Session)

\* the user picks another site among the options the selectbox shows
SelectSite(s) ==
    /\ s \in Range(site_options)
    /\ s # selected_site
    /\ Rerun(selected_races, selected_ethnicities, selected_genders, age_group,
             [options |-> site_options, value |-> s])

Next ==
    \/ \E r \in Range(StrOrder) : ToggleRace(r)
    \/ \E e \in Range(StrOrder) : ToggleEthnicity(e)
    \/ \E g \in Range(StrOrder) : ToggleGender(g)
    \/ \E ag \in Range(AgeGroups) : ChooseAgeGroup(ag)
    \/ \E s \in Range(StrOrder) \cup {All} : SelectSite(s)

Spec == Init /\ [][Next]_vars

----------------------------------------------------------------------------
(* Properties *)

Rows(df) == Range(df)

\* the number of rows of df with the value v in the column col
CountOf(df, col, v) == Cardinality({i \in 1..Len(df) : df[i][col] = v})

NonIncreasing(t) == \A i \in 1..Len(t) : \A j \in i..Len(t) : t[i].Count >= t[j].Count

PassRace(r) == selected_races = {} \/ r.race \in selected_races

PassEthnicity(r) == selected_ethnicities = {} \/ r.ethnicity \in selected_ethnicities

PassGender(r) == selected_genders = {} \/ r.gender \in selected_genders

InBracket(r, ag) ==
    \/ ag = "All Ages"
    \/ ag = "Young (0-45)" /\ \E a \in r.age : a <= 45
    \/ ag = "Adult (45-65)" /\ \E a \in r.age : 45 < a /\ a <= 65
    \/ ag = "Senior (65+)" /\ \E a \in r.age : a > 65

\* C1: for each of race, ethnicity and gender, a non-empty selection keeps
\* exactly the rows, among those passing the other filters, whose value is in
\* the selection, so every kept row has a value of the selection; an empty
\* selection removes no row.
C1_SelectionFilters ==
    /\ Rows(filtered_df) =
          {r \in Rows(brca_df) : /\ PassRace(r) /\ PassEthnicity(r) /\ PassGender(r)
                                 /\ InBracket(r, age_group)}
    /\ selected_races # {} => \A r \in Rows(filtered_df) : r.race \in selected_races
    /\ selected_ethnicities # {} =>
          \A r \in Rows(filtered_df) : r.ethnicity \in selected_ethnicities
    /\ selected_genders # {} => \A r \in Rows(filtered_df) : r.gender \in selected_genders
    /\ selected_races = {} =>
          Rows(filtered_df) = {r \in Rows(brca_df) : /\ PassEthnicity(r) /\ PassGender(r)
                                                     /\ InBracket(r, age_group)}

\* an empty race selection keeps a row of race "Unknown" while the ethnicity
\* selection removes another row
C1_Witness ==
    /\ selected_races = {}
    /\ selected_ethnicities # {}
    /\ \E r \in Rows(filtered_df) : r.race = Unknown
    /\ \E r \in Rows(brca_df) : r.ethnicity \notin selected_ethnicities

\* the result of the run had the age group been ag, everything else equal
WithBracket(ag) ==
    ApplyFilters(brca_df, selected_races, selected_ethnicities, selected_genders, ag)

\* C2: under the criteria of the state, the Young, Adult and Senior results
\* hold the rows of age <= 45, of 45 < age <= 65 and of age > 65, are pairwise
\* disjoint, and together are exactly the rows of the All Ages result with an
\* age; the result of the state is the one of its age group.
C2_BracketsPartition ==
    LET Y == Rows(WithBracket("Young (0-45)"))
        A == Rows(WithBracket("Adult (45-65)"))
        S == Rows(WithBracket("Senior (65+)"))
        O == Rows(WithBracket("All Ages"))
    IN  /\ Y = {r \in O : \E a \in r.age : a <= 45}
        /\ A = {r \in O : \E a \in r.age : 45 < a /\ a <= 65}
        /\ S = {r \in O : \E a \in r.age : a > 65}
        /\ Y \cap A = {} /\ Y \cap S = {} /\ A \cap S = {}
        /\ Y \cup A \cup S = {r \in O : r.age # {}}
        /\ Rows(filtered_df) = Rows(WithBracket(age_group))

\* the Adult result holds a row of age 46 while the table also holds a row of
\* age 45 and a row without age
C2_Witness ==
    /\ age_group = "Adult (45-65)"
    /\ \E r \in Rows(filtered_df) : r.age = {46}
    /\ \E r \in Rows(brca_df) : r.age = {45}
    /\ \E r \in Rows(brca_df) : r.age = {}

\* C3: a run whose filtered table is empty renders the warning and nothing
\* else, and computes none of the aggregate views nor the summary.
C3_EmptySkipsAggregation ==
    filtered_df = <<>> =>
        /\ shown = {"warning"}
        /\ demo_counts = <<>> /\ age_hist = <<>> /\ site_counts = <<>>
        /\ site_options = <<>> /\ site_filtered = <<>> /\ stage_counts = <<>>
        /\ metrics = <<>>

\* the filters removed every row of a table that has rows
C3_Witness == filtered_df = <<>> /\ brca_df # <<>> /\ "warning" \in shown

\* C4: the Unique Sites metric is the number of distinct sites other than
\* "Unknown" and the Stages metric the number of distinct stages other than
\* "Unknown".
C4_UniqueCountsExcludeUnknown ==
    filtered_df # <<>> =>
        /\ metrics # <<>>
        /\ metrics[1].unique_sites = Cardinality(Unique(filtered_df, "site") \ {Unknown})
        /\ metrics[1].unique_stages = Cardinality(Unique(filtered_df, "stage") \ {Unknown})

\* C5: the site ranking never lists "Unknown", has at most 10 rows in
\* non-increasing order of count, each count being the number of filtered rows
\* of the site, and lists the sites of highest count: as many as there are
\* sites other than "Unknown", up to 10, none left out having a higher count.
C5_SiteRanking ==
    filtered_df # <<>> =>
        LET sites == Unique(filtered_df, "site") \ {Unknown}
            listed == {site_counts[i].value : i \in 1..Len(site_counts)}
        IN  /\ Unknown \notin listed
            /\ Len(site_counts) <= 10
            /\ NonIncreasing(site_counts)
            /\ \A i \in 1..Len(site_counts) :
                  site_counts[i].Count = CountOf(filtered_df, "site", site_counts[i].value)
            /\ listed \subseteq sites
            /\ Cardinality(listed) = Len(site_counts)
            /\ Len(site_counts) = Min(10, Cardinality(sites))
            /\ \A x \in sites \ listed : \A i \in 1..Len(site_counts) :
                  CountOf(filtered_df, "site", x) <= site_counts[i].Count

\* more than 10 sites, "Unknown" the most frequent value, and a site of count 2
C5_Witness ==
    /\ Cardinality(Unique(filtered_df, "site") \ {Unknown}) > 10
    /\ CountOf(filtered_df, "site", Unknown) > 2
    /\ Len(site_counts) = 10
    /\ site_counts[1].Count = 2

KeyCount(df, race, ethnicity) ==
    Cardinality({i \in 1..Len(df) : df[i].race = race /\ df[i].ethnicity = ethnicity})

\* the position in df of the first row with the key
FirstSeen(df, race, ethnicity) ==
    CHOOSE i \in 1..Len(df) :
        /\ df[i].race = race /\ df[i].ethnicity = ethnicity
        /\ \A j \in 1..(i - 1) : ~(df[j].race = race /\ df[j].ethnicity = ethnicity)

\* C6 as claimed: at most 10 rows in non-increasing order of count and, the
\* sort by count being stable, keys of equal count in the order in which the
\* filtered table first shows them.
C6_EncounterOrder ==
    /\ Len(demo_counts) <= 10
    /\ NonIncreasing(demo_counts)
    /\ sort_stable => \A i \in 1..Len(demo_counts) : \A j \in (i + 1)..Len(demo_counts) :
          demo_counts[i].Count = demo_counts[j].Count =>
              FirstSeen(filtered_df, demo_counts[i].race, demo_counts[i].ethnicity)
                  < FirstSeen(filtered_df, demo_counts[j].race, demo_counts[j].ethnicity)

\* C6 as amended: at most 10 rows in non-increasing order of count, one per
\* key, each count the number of filtered rows of the key (keys with a
\* missing part are not listed), as many rows as there are keys up to 10, and
\* no key left out has a higher count than a listed one.
C6_Breakdown ==
    filtered_df # <<>> =>
        LET keys == {<<filtered_df[i].race, filtered_df[i].ethnicity>> :
                        i \in 1..Len(filtered_df)}
            whole == {k \in keys : k[1] # NaN /\ k[2] # NaN}
            listed == {<<demo_counts[i].race, demo_counts[i].ethnicity>> :
                          i \in 1..Len(demo_counts)}
        IN  /\ Len(demo_counts) <= 10
            /\ NonIncreasing(demo_counts)
            /\ \A i \in 1..Len(demo_counts) :
                  demo_counts[i].Count =
                      KeyCount(filtered_df, demo_counts[i].race, demo_counts[i].ethnicity)
            /\ listed \subseteq whole
            /\ Cardinality(listed) = Len(demo_counts)
            /\ Len(demo_counts) = Min(10, Cardinality(whole))
            /\ \A k \in whole \ listed : \A i \in 1..Len(demo_counts) :
                  KeyCount(filtered_df, k[1], k[2]) <= demo_counts[i].Count

\* more than 10 keys, one of count 2, so that the truncation drops a key
C6_Witness ==
    /\ Cardinality({<<filtered_df[i].race, filtered_df[i].ethnicity>> :
                       i \in 1..Len(filtered_df)}) > 10
    /\ Len(demo_counts) = 10
    /\ demo_counts[1].Count = 2

StageRendered == "stage_chart" \in shown

StagePlaceholder == "stage_info_no_stage" \in shown \/ "stage_info_no_site" \in shown

\* C7 as claimed: with a non-empty filtered table, a view without rows shows a
\* placeholder instead of its chart, and the other views and the summary are
\* rendered.
C7_PlaceholderEveryView ==
    filtered_df # <<>> =>
        /\ age_hist = <<>> => "age_info" \in shown /\ "age_chart" \notin shown
        /\ site_counts = <<>> => "site_info" \in shown /\ "site_chart" \notin shown
        /\ stage_counts = <<>> => StagePlaceholder /\ ~StageRendered
        /\ age_hist # <<>> => "age_chart" \in shown
        /\ site_counts # <<>> => "site_chart" \in shown
        /\ stage_counts # <<>> => StageRendered
        /\ {"demo_chart", "summary"} \subseteq shown
        /\ metrics # <<>>

\* C7 as amended: with a non-empty filtered table, a stage breakdown without
\* rows shows its placeholder instead of the chart, an age histogram without
\* ages is left out without a placeholder, a site ranking without rows is
\* still drawn as a chart of no rows, and in each case every other view and
\* the summary are computed and rendered and nothing else is shown.
C7_EmptyViewsIsolated ==
    filtered_df # <<>> =>
        /\ stage_counts = <<>> => "stage_info_no_stage" \in shown /\ ~StageRendered
        /\ stage_counts # <<>> => StageRendered /\ ~StagePlaceholder
        /\ "age_chart" \in shown <=> age_hist # <<>>
        /\ "site_chart" \in shown
        /\ {"patients_metric", "demo_chart", "summary"} \subseteq shown
        /\ shown \subseteq {"patients_metric", "demo_chart", "age_chart", "site_chart",
                            "stage_chart", "stage_info_no_stage", "summary"}
        /\ metrics # <<>>
        /\ metrics[1].total = Len(filtered_df)

\* no age and no stage other than "Unknown" in a non-empty filtered table
C7_Witness ==
    /\ filtered_df # <<>>
    /\ age_hist = <<>>
    /\ stage_counts = <<>>
    /\ site_counts # <<>>
    /\ "summary" \in shown

\* C8: a run under the same table and filter criteria as the one before it
\* leaves the filtered table, the race/ethnicity breakdown, the age histogram,
\* the site ranking and the summary as they were, whatever site is selected.
C8_SiteSelectionFrame ==
    [][(/\ brca_df' = brca_df
        /\ selected_races' = selected_races
        /\ selected_ethnicities' = selected_ethnicities
        /\ selected_genders' = selected_genders
        /\ age_group' = age_group)
       => (/\ filtered_df' = filtered_df
           /\ demo_counts' = demo_counts
           /\ age_hist' = age_hist
           /\ site_counts' = site_counts
           /\ metrics' = metrics)]_vars

\* a site is selected that holds only part of the filtered rows
C8_Witness ==
    /\ selected_site # All
    /\ site_filtered # <<>>
    /\ Len(site_filtered) < Len(filtered_df)
    /\ metrics # <<>>

\* C9: the stage breakdown counts the whole filtered table under "All" and
\* the rows of the selected site otherwise; it never lists "Unknown", lists
\* every other stage of those rows once with its number of rows, in
\* non-increasing order of count, and is empty, with the placeholder shown in
\* place of the chart, exactly when those rows have no stage but "Unknown".
C9_StageBreakdown ==
    filtered_df # <<>> =>
        LET R == IF selected_site = All THEN filtered_df
                 ELSE SelectSeq(filtered_df, LAMBDA r : r.site = selected_site)
            stages == Unique(R, "stage") \ {Unknown}
            listed == {stage_counts[i].value : i \in 1..Len(stage_counts)}
        IN  /\ site_filtered = R
            /\ listed = stages
            /\ Cardinality(listed) = Len(stage_counts)
            /\ \A i \in 1..Len(stage_counts) :
                  stage_counts[i].Count = CountOf(R, "stage", stage_counts[i].value)
            /\ NonIncreasing(stage_counts)
            /\ stage_counts = <<>> <=> stages = {}
            /\ stage_counts = <<>> => StagePlaceholder /\ ~StageRendered
            /\ stage_counts # <<>> => StageRendered /\ ~StagePlaceholder

\* a selected site whose rows hold a stage "Unknown" beside another stage,
\* in a filtered table with further rows
C9_Witness ==
    /\ selected_site # All
    /\ Len(site_filtered) < Len(filtered_df)
    /\ \E r \in Rows(site_filtered) : r.stage = Unknown
    /\ stage_counts # <<>>

\* C10: in a run that reaches the stage breakdown the selected site is "All"
\* or one of the at most 10 sites, none of them "Unknown", of the site ranking
\* of that run, so the rows of the selected site are never empty and the
\* "No data for selected site." placeholder is never shown.
C10_SelectedSiteListed ==
    filtered_df # <<>> =>
        /\ site_options # <<>>
        /\ \/ selected_site = All
           \/ \E i \in 1..Len(site_counts) : site_counts[i].value = selected_site
        /\ selected_site # Unknown
        /\ Len(site_counts) <= 10
        /\ site_filtered # <<>>
        /\ "stage_info_no_site" \notin shown

\* the session held a site that the filtered table of this run no longer has
C10_Witness == filtered_df # <<>> /\ stale_site /\ selected_site = All

====
